---- MODULE Spec2Model ----
(***************************************************************************)
(* Model of the sketch-and-guess game room: the authoritative store (room, *)
(* players, round statistics, messages, strokes), the publish/subscribe    *)
(* channels, and the per-client React state of GameRoom, ChatArea and      *)
(* DrawingCanvas.  Every handler reads the client's LOCAL view (the values *)
(* captured by its closure) and writes the store; a local view changes     *)
(* only when loadGameRoom runs.                                            *)
(***************************************************************************)
EXTENDS Integers, Sequences, FiniteSets, TLC

\* ---------------------------------------------------------------- bounds
NumUsers == 3
MaxMessages == 2
MaxTimers == 1
MaxAwards == 2
MaxPoints == 2
MaxStrokes == 2
MaxLen == 2
MaxNow == 61
MaxTimeArg == 150
MaxCategories == 2
NumSessions == 2
MaxHomeUsers == 4
MaxEffects == 3
MaxGuesses == 3

\* ------------------------------------------------------ program constants
MaxRounds == 3
RoundTime == 60
HostUserId == 1
BasePoints == 100
BonusCap == 50
MinPoints == 50
GuessTimeLeft == 60
DefaultMaxTime == 60
MessageLimit == 50

Users == 1..NumUsers
NoUser == 0

\* Text is a sequence of one-character strings.
Chars == {"a", "A", "b", " "}
NullWord == <<"null">>
Cat == <<"c", "a", "t">>

Max(a, b) == IF a >= b THEN a ELSE b

\* ------------------------------------------------------------ text helpers
LowerChar(ch) == IF ch = "A" THEN "a" ELSE IF ch = "B" THEN "b" ELSE ch

ToLowerCase(s) == [i \in 1..Len(s) |-> LowerChar(s[i])]

UpperChar(ch) == IF ch = "a" THEN "A" ELSE IF ch = "b" THEN "B" ELSE ch

ToUpperCase(s) == [i \in 1..Len(s) |-> UpperChar(s[i])]

RECURSIVE TrimStart(_)
TrimStart(s) == IF s # <<>> /\ Head(s) = " " THEN TrimStart(Tail(s)) ELSE s

RECURSIVE TrimEnd(_)
TrimEnd(s) == IF s # <<>> /\ s[Len(s)] = " " THEN TrimEnd(SubSeq(s, 1, Len(s) - 1)) ELSE s

Trim(s) == TrimEnd(TrimStart(s))

\* s.split(','): the pieces between commas, in order (an empty piece included).
RECURSIVE SplitAcc(_, _, _)
SplitAcc(s, cur, acc) ==
  IF s = <<>> THEN Append(acc, cur)
  ELSE IF Head(s) = "," THEN SplitAcc(Tail(s), <<>>, Append(acc, cur))
  ELSE SplitAcc(Tail(s), Append(cur, Head(s)), acc)

Split(s) == SplitAcc(s, <<>>, <<>>)

Truthy(w) == w # NullWord /\ w # <<>>

\* ChatArea.calculatePoints.  timeLeft / maxTime and its product with 50 are IEEE-754
\* doubles, each rounded to nearest.  For the arguments listed in RoundsBelow the
\* product comes out just below the exact quotient 50 * timeLeft / maxTime, which is
\* an integer there, so Math.floor returns one less than that integer: for instance
\* (138 / 60) * 50 is 114.99999999999999.  For every other argument in
\* -MaxTimeArg..MaxTimeArg and MaxTimeArgs the floor of the double is the floor of
\* the exact quotient.
RoundsBelow ==
  {<<-147, 30>>, <<-132, 30>>, <<-66, 30>>, <<-33, 30>>, <<69, 30>>, <<123, 30>>,
   <<138, 30>>, <<-132, 60>>, <<-66, 60>>, <<138, 60>>, <<-99, 90>>}

TimeBonus(timeLeft, maxTime) ==
  ((timeLeft * BonusCap) \div maxTime)
    - (IF <<timeLeft, maxTime>> \in RoundsBelow THEN 1 ELSE 0)

CalculatePoints(timeLeft, maxTime) ==
  Max(BasePoints + TimeBonus(timeLeft, maxTime), MinPoints)

\* ChatArea.sendMessage: the two classification flags.
IsGuess(gameState, drawerFlag) == gameState = "playing" /\ ~drawerFlag

IsCorrect(guessFlag, currentWord, newMessage) ==
  /\ guessFlag
  /\ Truthy(currentWord)
  /\ Trim(ToLowerCase(newMessage)) = ToLowerCase(currentWord)

\* Sorting rows by descending score; rows of equal score keep the order they have
\* in `rows`.
RECURSIVE InsertByScore(_, _)
InsertByScore(row, sorted) ==
  IF sorted = <<>> THEN <<row>>
  ELSE IF row.score > Head(sorted).score THEN <<row>> \o sorted
  ELSE <<Head(sorted)>> \o InsertByScore(row, Tail(sorted))

RECURSIVE SortByScoreDesc(_)
SortByScoreDesc(rows) ==
  IF rows = <<>> THEN <<>>
  ELSE InsertByScore(rows[Len(rows)], SortByScoreDesc(SubSeq(rows, 1, Len(rows) - 1)))

\* players.findIndex(p => p.userId === id), 0-based, -1 when absent.
RECURSIVE FindIndexFrom(_, _, _)
FindIndexFrom(players, id, i) ==
  IF i > Len(players) THEN -1
  ELSE IF players[i].userId = id THEN i - 1
  ELSE FindIndexFrom(players, id, i + 1)

FindIndex(players, id) == FindIndexFrom(players, id, 1)

HasPlayer(players, id) == FindIndex(players, id) >= 0

\* nextRound: the player after the current drawer in the caller's players list.
NextDrawerIndex(players, drawerId) == FindIndex(players, drawerId) + 1

NextDrawer_Position(players, drawerId) ==
  [players[1] EXCEPT !.userId = NextDrawerIndex(players, drawerId) + 1]

NextDrawer(players, drawerId) ==
  players[(NextDrawerIndex(players, drawerId) % Len(players)) + 1]

NextRoundNumber(r) == r.currentRound + 1

\* ------------------------------------------------------------------ state
VARIABLES
  gameRooms,       \* store: the room row
  roomPlayers,     \* store: player rows in creation order
  gameStats,       \* store: round number -> statistics row
  gameMessages,    \* store: message rows in creation order
  drawingStrokes,  \* store: stroke rows in creation order
  wordCategories,  \* store: the word lists of the room's difficulty
  tieBreak,        \* store: rank in which a query returns rows of equal sort key
  scoring,         \* ChatArea.calculatePoints: the arguments of a call and its result
  wordChoice,      \* GameRoom.getRandomWord: what a call reads and the word it returns
  homeJoin,        \* HomePage.joinRoom: the user and position of each home-page session
  loading,         \* loadGameRoom: the answer to a client's queries that is still in flight
  subscriptions,   \* GameRoom realtime effect: realtimeChannelRef and the handlers subscribed
  startCall,       \* GameRoom.startGame: the caller of the last call and how it ended
  now,             \* wall clock, in seconds
  roomChannel,     \* room_<id>: undelivered notifications per subscriber
  chatChannel,     \* chat_<id>
  drawingChannel,  \* drawing_<id>
  room,            \* GameRoom state `room` per client
  players,         \* GameRoom state `players` per client
  isDrawer,        \* GameRoom state `isDrawer` per client
  nextRoundTimers, \* pending setTimeout(() => nextRound(), 3000) per client
  roundEndTimers,  \* pending setTimeout(publish round_end, 1000) per client
  award,           \* position of a running awardPoints per client
  isDrawing,       \* DrawingCanvas state per client
  currentStroke,   \* DrawingCanvas state: points captured so far
  strokes,         \* DrawingCanvas state `strokes`: ids of the loaded stroke rows
  timeLeft,        \* GameRoom state `timeLeft`: the displayed countdown per client
  messages         \* ChatArea state `messages`: the loaded message rows per client

storeVars == <<gameRooms, roomPlayers, gameStats, gameMessages, drawingStrokes,
               wordCategories, tieBreak, scoring, wordChoice, homeJoin, loading, subscriptions, startCall,
               now>>
channelVars == <<roomChannel, chatChannel, drawingChannel>>
viewVars == <<room, players, isDrawer, strokes, timeLeft, messages>>
canvasVars == <<isDrawing, currentStroke>>
vars == <<gameRooms, roomPlayers, gameStats, gameMessages, drawingStrokes,
          wordCategories, tieBreak, scoring, wordChoice, homeJoin, loading, subscriptions, startCall, now, roomChannel, chatChannel, drawingChannel,
          room, players, isDrawer, nextRoundTimers, roundEndTimers, award,
          isDrawing, currentStroke, strokes, timeLeft, messages>>

\* `room` before the first load completes (null in the source).
NoRoom ==
  [gameState |-> "none", currentRound |-> 0, currentDrawerId |-> NoUser,
   currentWord |-> NullWord, roundStartTime |-> 0, teamMode |-> FALSE]

\* HomePage.createRoom: the row a new room starts with.
NewRoom ==
  [gameState |-> "waiting", currentRound |-> 0, currentDrawerId |-> NoUser,
   currentWord |-> NullWord, roundStartTime |-> 0, teamMode |-> FALSE]

NoStats == [exists |-> FALSE, drawerId |-> NoUser, word |-> NullWord, correctGuessers |-> <<>>]

NewStats(drawerId, word) ==
  [exists |-> TRUE, drawerId |-> drawerId, word |-> word, correctGuessers |-> <<>>]

\* ChatArea.loadMessages: the first MessageLimit rows of the room, oldest first.
ListMessages(rows) ==
  SubSeq(rows, 1, IF Len(rows) <= MessageLimit THEN Len(rows) ELSE MessageLimit)

\* startGame has not been called.
NoStartCall == [caller |-> NoUser, outcome |-> "none"]

\* realtimeChannelRef and the subscribe callbacks of a client whose realtime effect has
\* not run: no unsubscribe handle, no handler.
NoSubscription ==
  [ref |-> 0, handlers |-> <<>>, deps |-> [room |-> NoRoom, players |-> <<>>]]

\* The same of a client whose effect ran for the given room and roster and whose
\* subscribe call has resolved.
MountedSubscription(roomRow, playerRows) ==
  [ref |-> 1, handlers |-> <<"active">>, deps |-> [room |-> roomRow, players |-> playerRows]]

\* No answer to loadGameRoom's queries is in flight.
NoLoad == [pending |-> FALSE, room |-> NoRoom, players |-> <<>>]

NoLoading == [c \in Users |-> NoLoad]

NoAward == [stage |-> "idle", playerId |-> NoUser, roundNumber |-> 0, correctGuessers |-> <<>>]

\* The word list used by the concurrent specifications: "a,b".
DefaultCategories == << <<"a", ",", "b">> >>

\* A word list of the single word "a".
OneWordCategories == << <<"a">> >>

\* The ranks a table can give rows of equal sort key; CreationOrder is the table
\* that returns them as they were created.
CreationOrder == [k \in 1..NumUsers |-> k]

TieBreaks == Permutations(1..NumUsers)

NotCalled ==
  [timeLeft |-> GuessTimeLeft, maxTime |-> DefaultMaxTime, called |-> FALSE, points |-> 0]

\* The row ids of room_players: GameRoom.joinRoom writes `player_<user>_<room>`,
\* HomePage.createRoom and HomePage.joinRoom write `<room>_<user>`.
GameRoomPlayerId(u) == <<"player", u, "room">>

HomePlayerId(u) == <<"room", u>>

HasRowId_NoKey(rows, id) == FALSE

\* roomPlayers.create throws when a row with the id exists.
HasRowId(rows, id) == \E i \in 1..Len(rows) : rows[i].id = id

\* No home-page session has started a join.
NoHomeJoin == [s \in 1..NumSessions |-> [user |-> NoUser, stage |-> "idle", joinCode |-> <<>>, team |-> "none"]]

NotChosen ==
  [customWords |-> NullWord, difficulty |-> "", table |-> <<>>, fails |-> FALSE,
   called |-> FALSE, word |-> NullWord]

CreatedRoomWith(roomRow, categories, ranks, rows) ==
  /\ gameRooms = roomRow
  /\ roomPlayers = rows
  /\ gameStats = [r \in 1..MaxRounds |-> NoStats]
  /\ gameMessages = <<>>
  /\ drawingStrokes = <<>>
  /\ wordCategories = categories
  /\ tieBreak = ranks
  /\ now = 0
  /\ roomChannel = [c \in Users |-> {}]
  /\ chatChannel = [c \in Users |-> {}]
  /\ drawingChannel = [c \in Users |-> {}]
  /\ room = [c \in Users |-> NoRoom]
  /\ players = [c \in Users |-> <<>>]
  /\ isDrawer = [c \in Users |-> FALSE]
  /\ nextRoundTimers = [c \in Users |-> <<>>]
  /\ roundEndTimers = [c \in Users |-> 0]
  /\ award = [c \in Users |-> NoAward]
  /\ isDrawing = [c \in Users |-> FALSE]
  /\ currentStroke = [c \in Users |-> 0]
  /\ strokes = [c \in Users |-> <<>>]
  /\ messages = [c \in Users |-> <<>>]
  /\ timeLeft = [c \in Users |-> 0]

CreatedRoom(categories, ranks, rows) == CreatedRoomWith(NewRoom, categories, ranks, rows)

EmptyRoom(categories, ranks) == CreatedRoom(categories, ranks, <<>>)

InitWith(categories, ranks) ==
  /\ EmptyRoom(categories, ranks)
  /\ scoring = NotCalled
  /\ wordChoice = NotChosen
  /\ homeJoin = NoHomeJoin
  /\ loading = NoLoading
  /\ subscriptions = [c \in Users |-> NoSubscription]
  /\ startCall = NoStartCall

Init == InitWith(DefaultCategories, CreationOrder)

\* The lobby once users 1..n have opened the room, joined in that order and every
\* player_update has been delivered.
LobbyRows(n) == [i \in 1..n |-> [id |-> GameRoomPlayerId(i), userId |-> i, score |-> 0, team |-> "none"]]

LobbyInit(n, categories) ==
  /\ gameRooms = NewRoom
  /\ roomPlayers = LobbyRows(n)
  /\ gameStats = [r \in 1..MaxRounds |-> NoStats]
  /\ gameMessages = <<>>
  /\ drawingStrokes = <<>>
  /\ wordCategories = categories
  /\ tieBreak = CreationOrder
  /\ scoring = NotCalled
  /\ wordChoice = NotChosen
  /\ homeJoin = NoHomeJoin
  /\ loading = NoLoading
  /\ subscriptions = [c \in Users |-> IF c <= n THEN MountedSubscription(NewRoom, LobbyRows(n))
                                                ELSE NoSubscription]
  /\ startCall = NoStartCall
  /\ now = 0
  /\ roomChannel = [c \in Users |-> {}]
  /\ chatChannel = [c \in Users |-> {}]
  /\ drawingChannel = [c \in Users |-> {}]
  /\ room = [c \in Users |-> IF c <= n THEN NewRoom ELSE NoRoom]
  /\ players = [c \in Users |-> IF c <= n THEN LobbyRows(n) ELSE <<>>]
  /\ isDrawer = [c \in Users |-> FALSE]
  /\ nextRoundTimers = [c \in Users |-> <<>>]
  /\ roundEndTimers = [c \in Users |-> 0]
  /\ award = [c \in Users |-> NoAward]
  /\ isDrawing = [c \in Users |-> FALSE]
  /\ currentStroke = [c \in Users |-> 0]
  /\ strokes = [c \in Users |-> <<>>]
  /\ messages = [c \in Users |-> <<>>]
  /\ timeLeft = [c \in Users |-> 0]

\* The room once the host has started the game with the given word and users 1..n
\* have loaded the started room.
PlayingRoom(word) ==
  [gameState |-> "playing", currentRound |-> 1, currentDrawerId |-> HostUserId,
   currentWord |-> word, roundStartTime |-> 0, teamMode |-> FALSE]

PlayingInitWith(n, word, chat) ==
  /\ gameRooms = PlayingRoom(word)
  /\ roomPlayers = LobbyRows(n)
  /\ gameStats = [r \in 1..MaxRounds |->
                    IF r = 1 THEN NewStats(HostUserId, word) ELSE NoStats]
  /\ gameMessages = chat
  /\ drawingStrokes = <<>>
  /\ wordCategories = <<word>>
  /\ tieBreak = CreationOrder
  /\ scoring = NotCalled
  /\ wordChoice = NotChosen
  /\ homeJoin = NoHomeJoin
  /\ loading = NoLoading
  /\ subscriptions = [c \in Users |-> IF c <= n
                                       THEN MountedSubscription(PlayingRoom(word), LobbyRows(n))
                                       ELSE NoSubscription]
  /\ startCall = [caller |-> HostUserId, outcome |-> "ran"]
  /\ now = 0
  /\ roomChannel = [c \in Users |-> {}]
  /\ chatChannel = [c \in Users |-> {}]
  /\ drawingChannel = [c \in Users |-> {}]
  /\ room = [c \in Users |-> IF c <= n THEN PlayingRoom(word) ELSE NoRoom]
  /\ players = [c \in Users |-> IF c <= n THEN LobbyRows(n) ELSE <<>>]
  /\ isDrawer = [c \in Users |-> c = HostUserId]
  /\ nextRoundTimers = [c \in Users |-> <<>>]
  /\ roundEndTimers = [c \in Users |-> 0]
  /\ award = [c \in Users |-> NoAward]
  /\ isDrawing = [c \in Users |-> FALSE]
  /\ currentStroke = [c \in Users |-> 0]
  /\ strokes = [c \in Users |-> <<>>]
  /\ messages = [c \in Users |-> IF c <= n THEN ListMessages(chat) ELSE <<>>]
  /\ timeLeft = [c \in Users |-> IF c <= n THEN RoundTime ELSE 0]

PlayingInit(n, word) == PlayingInitWith(n, word, <<>>)

\* ------------------------------------------------------------ word choice
\* The pieces of a comma-separated word list.
Pieces(list) == {Split(list)[i] : i \in 1..Len(Split(list))}

\* room?.difficulty || 'medium'
LookupDifficulty(difficulty) == IF difficulty = "" THEN "medium" ELSE difficulty

\* The rows wordCategories.list({ where: { difficulty } }) returns.
CategoriesOf(table, difficulty) ==
  {k \in 1..Len(table) : table[k].difficulty = LookupDifficulty(difficulty)}

RandomWord_CategoriesFirst(customWords, difficulty, table, fails) ==
  IF fails THEN {Cat}
  ELSE IF CategoriesOf(table, difficulty) # {}
    THEN UNION {Pieces(table[k].words) : k \in CategoriesOf(table, difficulty)}
  ELSE IF Truthy(customWords) THEN Pieces(customWords)
  ELSE {Cat}

\* GameRoom.getRandomWord: the words a call can return for a room with the given
\* customWords and difficulty, the given word_categories table, and a lookup that
\* throws (fails) or not.
RandomWord(customWords, difficulty, table, fails) ==
  IF Truthy(customWords) THEN Pieces(customWords)
  ELSE IF fails THEN {Cat}
  ELSE IF CategoriesOf(table, difficulty) = {} THEN {Cat}
  ELSE UNION {Pieces(table[k].words) : k \in CategoriesOf(table, difficulty)}

\* A getRandomWord that returns null instead of falling back to a word.
GetRandomWord_Null == {NullWord}

\* getRandomWord in the rooms of the concurrent specifications: the room carries no
\* custom word list and no difficulty, wordCategories holds the word lists of the
\* categories of medium difficulty, and the lookup succeeds.
GetRandomWord ==
  RandomWord(NullWord, "",
             [k \in 1..Len(wordCategories) |->
                [difficulty |-> "medium", words |-> wordCategories[k]]],
             FALSE)

\* ------------------------------------------------------------ pub / sub
\* A client is subscribed to the room's channels once its first load has set `room`.
Subscribed(c) == room[c] # NoRoom

Publish(channel, type) ==
  [c \in Users |-> IF Subscribed(c) THEN channel[c] \cup {type} ELSE channel[c]]

\* ------------------------------------------------------------ loadStrokes
\* drawingStrokes.list({ roundNumber }, orderBy createdAt asc): the ids of the rows
\* of the round that are still in the table, in creation order.  A row's id is its
\* position; a deleted row keeps its position and is marked.
RoundStrokes_AllRounds(rows, roundNumber) ==
  SelectSeq([k \in 1..Len(rows) |-> k], LAMBDA k : ~rows[k].deleted)

RoundStrokes(rows, roundNumber) ==
  SelectSeq([k \in 1..Len(rows) |-> k],
            LAMBDA k : rows[k].roundNumber = roundNumber /\ ~rows[k].deleted)

\* ------------------------------------------------------------------ timer
\* loadGameRoom's reconstruction of the time left in the round of the loaded row.
Remaining(roomRow) == Max(0, RoundTime - (now - roomRow.roundStartTime))

\* startTimer(duration) of client c.
StartTimer(c, duration) == timeLeft' = [timeLeft EXCEPT ![c] = duration]

\* One second of wall-clock time passes.
Tick ==
  /\ now < MaxNow
  /\ now' = now + 1
  /\ UNCHANGED <<gameRooms, roomPlayers, gameStats, gameMessages, drawingStrokes,
                 wordCategories, tieBreak, scoring, wordChoice, homeJoin, loading, subscriptions, startCall, channelVars, viewVars, nextRoundTimers,
                 roundEndTimers, award, canvasVars>>

\* The setInterval callback of startTimer runs once: it counts down to 0 and stops
\* there.  The callback runs when the browser schedules it, not when the second ends.
TimerTick(c) ==
  /\ timeLeft[c] > 0
  /\ timeLeft' = [timeLeft EXCEPT ![c] = IF @ <= 1 THEN 0 ELSE @ - 1]
  /\ UNCHANGED <<storeVars, channelVars, room, players, isDrawer, messages, strokes, nextRoundTimers,
                 roundEndTimers, award, canvasVars>>

\* ------------------------------------------------------ roomPlayers.list
\* The query names one sort key, the score.  Among rows of equal score the table
\* returns them in an order of its own, fixed for the table: the row created k-th
\* has rank tieBreak[k].
StoreOrder(rows) ==
  LET byRank == SortSeq([k \in 1..Len(rows) |-> k],
                        LAMBDA a, b : tieBreak[a] < tieBreak[b])
  IN  [i \in 1..Len(rows) |-> rows[byRank[i]]]

\* roomPlayers.list({ where: { roomId }, orderBy: { score: 'desc' } }).
ListPlayers(rows) == SortByScoreDesc(StoreOrder(rows))

\* ---------------------------------------------------------- loadGameRoom
\* loadGameRoom of client c against the given store contents.  DrawingCanvas is
\* mounted with the loaded room and its effect runs loadStrokes whenever the
\* currentRound it is given changes; ChatArea is mounted with the loaded room and
\* its effect runs loadMessages.
LoadGameRoom(c, roomRow, playerRows) ==
  /\ messages' = [messages EXCEPT ![c] =
                    IF room[c] = NoRoom THEN ListMessages(gameMessages) ELSE @]
  /\ room' = [room EXCEPT ![c] = roomRow]
  /\ players' = [players EXCEPT ![c] = ListPlayers(playerRows)]
  /\ isDrawer' = [isDrawer EXCEPT ![c] = (roomRow.currentDrawerId = c)]
  /\ strokes' = [strokes EXCEPT ![c] =
                   IF room[c] = NoRoom \/ room[c].currentRound # roomRow.currentRound
                     THEN RoundStrokes(drawingStrokes, roomRow.currentRound)
                     ELSE @]
  /\ IF roomRow.gameState = "playing" /\ Remaining(roomRow) > 0
       THEN StartTimer(c, Remaining(roomRow))
       ELSE UNCHANGED timeLeft

\* The auth effect's first loadGameRoom.
InitialLoad(c) ==
  /\ room[c] = NoRoom
  /\ LoadGameRoom(c, gameRooms, roomPlayers)
  /\ UNCHANGED <<storeVars, channelVars, nextRoundTimers, roundEndTimers, award, canvasVars>>

\* ---------------------------------------------------------------- joinRoom
\* The Join button is rendered while the local room is waiting and the user has no
\* player in the local list.  roomPlayers.create throws on an existing row id.
JoinRoom(c) ==
  /\ room[c] # NoRoom
  /\ room[c].gameState = "waiting"
  /\ ~HasPlayer(players[c], c)
  /\ IF HasRowId(roomPlayers, GameRoomPlayerId(c))
       THEN UNCHANGED <<roomPlayers, roomChannel, viewVars>>
       ELSE /\ roomPlayers' = Append(roomPlayers,
                                     [id |-> GameRoomPlayerId(c), userId |-> c, score |-> 0,
                                      team |-> "none"])
            /\ roomChannel' = Publish(roomChannel, "player_update")
            /\ LoadGameRoom(c, gameRooms, roomPlayers')
  /\ UNCHANGED <<gameRooms, gameStats, gameMessages, drawingStrokes, wordCategories, tieBreak, scoring, wordChoice, homeJoin, loading, subscriptions, startCall, now,
                 chatChannel, drawingChannel, nextRoundTimers, roundEndTimers, award,
                 canvasVars>>

\* --------------------------------------------------------------- startGame
\* The Start button is rendered for the host while the local room is waiting and
\* the host has a player in the local list.  gameStats.create throws on an existing
\* row id, which skips the publish.
IsHost_Anyone(c) == TRUE

\* room.hostUserId === user.id
IsHost(c) == c = HostUserId

StartGame(c) ==
  /\ room[c] # NoRoom
  /\ room[c].gameState = "waiting"
  /\ HasPlayer(players[c], c)
  /\ IsHost(c)
  /\ Len(players[c]) >= 2
  /\ startCall' = [caller |-> c, outcome |-> "ran"]
  /\ \E randomWord \in GetRandomWord :
       LET firstDrawer == players[c][1] IN
       /\ gameRooms' = [gameRooms EXCEPT !.gameState = "playing", !.currentRound = 1,
                                         !.currentDrawerId = firstDrawer.userId,
                                         !.currentWord = randomWord, !.roundStartTime = now]
       /\ IF gameStats[1].exists
            THEN UNCHANGED <<gameStats, roomChannel, timeLeft>>
            ELSE /\ gameStats' = [gameStats EXCEPT ![1] = NewStats(firstDrawer.userId, randomWord)]
                 /\ roomChannel' = Publish(roomChannel, "room_update")
                 /\ StartTimer(c, RoundTime)
  /\ UNCHANGED <<roomPlayers, gameMessages, drawingStrokes, wordCategories, tieBreak, scoring, wordChoice, homeJoin, loading, subscriptions, now,
                 chatChannel, drawingChannel, room, players, isDrawer, messages, strokes,
                 nextRoundTimers, roundEndTimers, award, canvasVars>>

\* startGame called by a user whose local room names another host, or with fewer than
\* two players in the local list: the first line returns.
StartGameReturns(c) ==
  /\ room[c] # NoRoom
  /\ ~IsHost(c) \/ Len(players[c]) < 2
  /\ startCall' = [caller |-> c, outcome |-> "returned"]
  /\ UNCHANGED <<gameRooms, roomPlayers, gameStats, gameMessages, drawingStrokes,
                 wordCategories, tieBreak, scoring, wordChoice, homeJoin, loading,
                 subscriptions, now, channelVars, viewVars, nextRoundTimers, roundEndTimers,
                 award, canvasVars>>

\* --------------------------------------------------------------- nextRound
\* What a nextRound call holds: the `room` and `players` its closure captured.
Snapshot(c) == [room |-> room[c], players |-> players[c]]

\* The row nextRound writes when it advances to the next round.
AdvancedRoom(roomRow, snap, randomWord) ==
  [roomRow EXCEPT !.currentRound = NextRoundNumber(snap.room),
                  !.currentDrawerId = NextDrawer(snap.players, snap.room.currentDrawerId).userId,
                  !.currentWord = randomWord,
                  !.roundStartTime = now]

\* A nextRound that counted the last round once more when it finishes the game.
FinishedRoom_CountsRound(roomRow) ==
  [roomRow EXCEPT !.gameState = "finished", !.currentRound = @ + 1]

\* The row nextRound writes when the game is over.
FinishedRoom(roomRow) == [roomRow EXCEPT !.gameState = "finished"]

\* nextRound run from the snapshot snap.  With an empty players list nextDrawer is
\* undefined and reading nextDrawer.userId throws before any write.
NextRound(snap) ==
  IF snap.room = NoRoom
    THEN UNCHANGED <<gameRooms, gameStats, roomChannel>>
  ELSE IF NextRoundNumber(snap.room) > MaxRounds
    THEN /\ gameRooms' = FinishedRoom(gameRooms)
         /\ roomChannel' = Publish(roomChannel, "room_update")
         /\ UNCHANGED gameStats
  ELSE IF snap.players = <<>>
    THEN UNCHANGED <<gameRooms, gameStats, roomChannel>>
  ELSE \E randomWord \in GetRandomWord :
         LET n == NextRoundNumber(snap.room)
             nextDrawer == NextDrawer(snap.players, snap.room.currentDrawerId) IN
         /\ gameRooms' = AdvancedRoom(gameRooms, snap, randomWord)
         /\ IF gameStats[n].exists
              THEN UNCHANGED <<gameStats, roomChannel>>
              ELSE /\ gameStats' = [gameStats EXCEPT ![n] = NewStats(nextDrawer.userId, randomWord)]
                   /\ roomChannel' = Publish(roomChannel, "room_update")

RemoveAt(seq, i) == SubSeq(seq, 1, i - 1) \o SubSeq(seq, i + 1, Len(seq))

\* nextRound reaches its last statement, startTimer(room.roundTime), when it
\* advanced the round and nothing before that statement threw.
ReachesStartTimer(snap) ==
  /\ snap.room # NoRoom
  /\ NextRoundNumber(snap.room) <= MaxRounds
  /\ snap.players # <<>>
  /\ ~gameStats[NextRoundNumber(snap.room)].exists

\* The i-th pending setTimeout(() => nextRound(), 3000) of client c fires.
NextRoundTimeoutAt(c, i) ==
  /\ i \in 1..Len(nextRoundTimers[c])
  /\ NextRound(nextRoundTimers[c][i])
  /\ IF ReachesStartTimer(nextRoundTimers[c][i])
       THEN StartTimer(c, RoundTime)
       ELSE UNCHANGED timeLeft
  /\ nextRoundTimers' = [nextRoundTimers EXCEPT ![c] = RemoveAt(@, i)]
  /\ UNCHANGED <<roomPlayers, gameMessages, drawingStrokes, wordCategories, tieBreak, scoring, wordChoice, homeJoin, loading, subscriptions, startCall, now,
                 chatChannel, drawingChannel, room, players, isDrawer, messages, strokes,
                 roundEndTimers, award, canvasVars>>

NextRoundTimeout(c) == \E i \in 1..MaxTimers : NextRoundTimeoutAt(c, i)

\* ------------------------------------------------- room channel handler
\* The subscribe callback of GameRoom for one notification of the given type.
OnRoomMessage(c, type) ==
  IF type \in {"room_update", "player_update"}
    THEN /\ LoadGameRoom(c, gameRooms, roomPlayers)
         /\ UNCHANGED nextRoundTimers
  ELSE IF type = "round_end"
    THEN /\ nextRoundTimers' = [nextRoundTimers EXCEPT ![c] = Append(@, Snapshot(c))]
         /\ UNCHANGED viewVars
  ELSE UNCHANGED <<viewVars, nextRoundTimers>>

\* The notification is delivered to client c once (keep = FALSE) or is delivered
\* and stays in flight to be delivered again (keep = TRUE).
Deliver(c, type, keep) ==
  /\ type \in roomChannel[c]
  /\ type = "round_end" => Len(nextRoundTimers[c]) < MaxTimers
  /\ OnRoomMessage(c, type)
  /\ roomChannel' = [roomChannel EXCEPT ![c] = IF keep THEN @ ELSE @ \ {type}]
  /\ UNCHANGED <<storeVars, chatChannel, drawingChannel, roundEndTimers, award, canvasVars>>

\* The room_update / player_update handler calls loadGameRoom, whose queries read the
\* tables; their answer has not reached the client yet.
LoadRequested(c, type) ==
  /\ type \in {"room_update", "player_update"}
  /\ type \in roomChannel[c]
  /\ ~loading[c].pending
  /\ loading' = [loading EXCEPT ![c] = [pending |-> TRUE, room |-> gameRooms,
                                         players |-> roomPlayers]]
  /\ roomChannel' = [roomChannel EXCEPT ![c] = @ \ {type}]
  /\ UNCHANGED <<gameRooms, roomPlayers, gameStats, gameMessages, drawingStrokes,
                 wordCategories, tieBreak, scoring, wordChoice, homeJoin, subscriptions, startCall, now, chatChannel,
                 drawingChannel, viewVars, nextRoundTimers, roundEndTimers, award, canvasVars>>

\* The answer reaches the client: loadGameRoom goes on to setRoom and setPlayers.
LoadAnswered(c) ==
  /\ loading[c].pending
  /\ LoadGameRoom(c, loading[c].room, loading[c].players)
  /\ loading' = [loading EXCEPT ![c] = NoLoad]
  /\ UNCHANGED <<gameRooms, roomPlayers, gameStats, gameMessages, drawingStrokes,
                 wordCategories, tieBreak, scoring, wordChoice, homeJoin, subscriptions, startCall, now, channelVars,
                 nextRoundTimers, roundEndTimers, award, canvasVars>>

\* The realtime effect of GameRoom runs again because room?.id, loadGameRoom or
\* nextRound changed (nextRound is rebuilt whenever room or players change): the
\* cleanup of the previous run invokes realtimeChannelRef.current if it is set, then
\* setupRealtime calls subscribe, which has not resolved yet.
RunEffect(c) ==
  LET sub == subscriptions[c]
      cleaned == IF sub.ref # 0 THEN [sub.handlers EXCEPT ![sub.ref] = "closed"]
                 ELSE sub.handlers IN
  /\ room[c] # NoRoom
  /\ Snapshot(c) # sub.deps
  /\ Len(sub.handlers) < MaxEffects
  /\ subscriptions' = [subscriptions EXCEPT ![c] =
        [ref |-> sub.ref, handlers |-> Append(cleaned, "pending"), deps |-> Snapshot(c)]]
  /\ UNCHANGED <<gameRooms, roomPlayers, gameStats, gameMessages, drawingStrokes,
                 wordCategories, tieBreak, scoring, wordChoice, homeJoin, loading, startCall, now,
                 channelVars, viewVars, nextRoundTimers, roundEndTimers, award, canvasVars>>

\* subscribe of effect run h resolves: the handler receives notifications from now on
\* and its unsubscribe handle is stored in realtimeChannelRef.
SubscribeResolved(c, h) ==
  /\ h \in 1..Len(subscriptions[c].handlers)
  /\ subscriptions[c].handlers[h] = "pending"
  /\ subscriptions' = [subscriptions EXCEPT ![c].handlers[h] = "active", ![c].ref = h]
  /\ UNCHANGED <<gameRooms, roomPlayers, gameStats, gameMessages, drawingStrokes,
                 wordCategories, tieBreak, scoring, wordChoice, homeJoin, loading, startCall, now,
                 channelVars, viewVars, nextRoundTimers, roundEndTimers, award, canvasVars>>

\* ------------------------------------------------------------- sendMessage
SeqContains(seq, x) == \E i \in 1..Len(seq) : seq[i] = x

SetScore(rows, id, score) ==
  [i \in 1..Len(rows) |-> IF rows[i].userId = id THEN [rows[i] EXCEPT !.score = score] ELSE rows[i]]

LocalPlayer(c) == players[c][FindIndex(players[c], c) + 1]

\* The message row sendMessage creates from the client's props and input.
MessageData(c, newMessage) ==
  LET guessFlag == IsGuess(room[c].gameState, isDrawer[c]) IN
  [userId |-> c, message |-> Trim(newMessage), isGuess |-> guessFlag,
   isCorrect |-> IsCorrect(guessFlag, room[c].currentWord, newMessage)]

\* The payload sendMessage publishes with correct_guess on the room channel.
RoomCorrectGuessPayload(c, points) ==
  [playerId |-> c, points |-> points, word |-> room[c].currentWord]

\* ChatArea.sendMessage with the input text newMessage.  On a correct guess it calls
\* awardPoints, whose score write is issued at once; awardPoints then continues with
\* AwardStatsRead.  The correct_guess notification of the room channel only shows a
\* toast in its handler and is not kept in roomChannel.  With updateFails the score
\* write is rejected: awardPoints ends in its catch block, and sendMessage, which does
\* not await it, goes on.
SendMessageIO(c, newMessage, limit, updateFails) ==
  LET messageData == MessageData(c, newMessage)
      points == CalculatePoints(GuessTimeLeft, DefaultMaxTime)
      awarded == messageData.isCorrect /\ HasPlayer(players[c], c) IN
  /\ room[c] # NoRoom
  /\ Trim(newMessage) # <<>>
  /\ ~(isDrawer[c] /\ room[c].gameState = "playing")
  /\ Len(gameMessages) < limit
  /\ messageData.isCorrect => award[c] = NoAward
  /\ awarded => LocalPlayer(c).score + points <= MaxAwards * points
  /\ updateFails => awarded
  /\ gameMessages' = Append(gameMessages, messageData)
  /\ chatChannel' =
       IF messageData.isCorrect
         THEN Publish(Publish(chatChannel, "correct_guess"), "new_message")
         ELSE Publish(chatChannel, "new_message")
  /\ roundEndTimers' = [roundEndTimers EXCEPT ![c] = IF messageData.isCorrect THEN @ + 1 ELSE @]
  /\ IF awarded /\ ~updateFails
       THEN /\ roomPlayers' = SetScore(roomPlayers, c, LocalPlayer(c).score + points)
            /\ award' = [award EXCEPT ![c] =
                 [stage |-> "read", playerId |-> c, roundNumber |-> room[c].currentRound,
                  correctGuessers |-> <<>>]]
       ELSE UNCHANGED <<roomPlayers, award>>
  /\ UNCHANGED <<gameRooms, gameStats, drawingStrokes, wordCategories, tieBreak, scoring, wordChoice, homeJoin, loading, subscriptions, startCall, now,
                 roomChannel, drawingChannel, viewVars, nextRoundTimers, canvasVars>>

SendMessageWithin(c, newMessage, limit) == SendMessageIO(c, newMessage, limit, FALSE)

SendMessage(c, newMessage) == SendMessageWithin(c, newMessage, MaxMessages)

\* awardPoints after the score write: gameStats.list for the caller's round.
AwardStatsRead(c) ==
  /\ award[c].stage = "read"
  /\ LET n == award[c].roundNumber
         found == n \in 1..MaxRounds /\ gameStats[n].exists IN
     IF found /\ ~SeqContains(gameStats[n].correctGuessers, award[c].playerId)
       THEN /\ award' = [award EXCEPT ![c].stage = "write",
                                      ![c].correctGuessers =
                                          Append(gameStats[n].correctGuessers, award[c].playerId)]
            /\ UNCHANGED viewVars
       ELSE /\ award' = [award EXCEPT ![c] = NoAward]
            /\ LoadGameRoom(c, gameRooms, roomPlayers)
  /\ UNCHANGED <<storeVars, channelVars, nextRoundTimers, roundEndTimers, canvasVars>>

\* awardPoints: gameStats.update with the list read before, then loadGameRoom.
AwardStatsWrite(c) ==
  /\ award[c].stage = "write"
  /\ gameStats' = [gameStats EXCEPT ![award[c].roundNumber].correctGuessers =
                                       award[c].correctGuessers]
  /\ award' = [award EXCEPT ![c] = NoAward]
  /\ LoadGameRoom(c, gameRooms, roomPlayers)
  /\ UNCHANGED <<gameRooms, roomPlayers, gameMessages, drawingStrokes, wordCategories, tieBreak, scoring, wordChoice, homeJoin, loading, subscriptions, startCall, now,
                 channelVars, nextRoundTimers, roundEndTimers, canvasVars>>

\* The setTimeout of sendMessage fires: publish round_end on the room channel.
PublishRoundEnd(c) ==
  /\ roundEndTimers[c] > 0
  /\ roundEndTimers' = [roundEndTimers EXCEPT ![c] = @ - 1]
  /\ roomChannel' = Publish(roomChannel, "round_end")
  /\ UNCHANGED <<storeVars, chatChannel, drawingChannel, viewVars, nextRoundTimers, award,
                 canvasVars>>

\* ----------------------------------------------------------- DrawingCanvas
\* The props GameRoom passes to DrawingCanvas.
CanDraw(c) == isDrawer[c] /\ room[c].gameState = "playing"

StartDrawing(c) ==
  /\ room[c] # NoRoom
  /\ CanDraw(c)
  /\ isDrawing' = [isDrawing EXCEPT ![c] = TRUE]
  /\ currentStroke' = [currentStroke EXCEPT ![c] = 1]
  /\ UNCHANGED <<storeVars, channelVars, viewVars, nextRoundTimers, roundEndTimers, award>>

Draw(c) ==
  /\ room[c] # NoRoom
  /\ isDrawing[c] /\ CanDraw(c)
  /\ currentStroke[c] < MaxPoints
  /\ currentStroke' = [currentStroke EXCEPT ![c] = @ + 1]
  /\ UNCHANGED <<storeVars, channelVars, viewVars, nextRoundTimers, roundEndTimers, award,
                 isDrawing>>

\* mouseup / mouseleave: a stroke of two or more points is stored and announced.
StopDrawing(c) ==
  /\ room[c] # NoRoom
  /\ isDrawing[c] \/ currentStroke[c] > 0
  /\ isDrawing' = [isDrawing EXCEPT ![c] = FALSE]
  /\ currentStroke' = [currentStroke EXCEPT ![c] = 0]
  /\ IF ~isDrawing[c] \/ ~CanDraw(c) \/ currentStroke[c] < 2
       THEN UNCHANGED <<drawingStrokes, drawingChannel>>
       ELSE /\ Len(drawingStrokes) < MaxStrokes
            /\ drawingStrokes' = Append(drawingStrokes,
                 [roundNumber |-> room[c].currentRound, points |-> currentStroke[c],
                  deleted |-> FALSE])
            /\ drawingChannel' = Publish(drawingChannel, "new_stroke")
  /\ UNCHANGED <<gameRooms, roomPlayers, gameStats, gameMessages, wordCategories, tieBreak, scoring, wordChoice, homeJoin, loading, subscriptions, startCall, now,
                 roomChannel, chatChannel, viewVars, nextRoundTimers, roundEndTimers, award>>

\* loadStrokes of client c: the list is replaced by what the table holds.
LoadStrokes(c) ==
  strokes' = [strokes EXCEPT ![c] = RoundStrokes(drawingStrokes, room[c].currentRound)]

\* The subscribe callback of DrawingCanvas: new_stroke (also sent by undo) reloads,
\* canvas_cleared empties the local list without reading the table.
OnDrawingMessage(c, type) ==
  IF type = "new_stroke"
    THEN LoadStrokes(c)
  ELSE IF type = "canvas_cleared"
    THEN strokes' = [strokes EXCEPT ![c] = <<>>]
  ELSE UNCHANGED strokes

DeliverDrawing(c, type, keep) ==
  /\ type \in drawingChannel[c]
  /\ OnDrawingMessage(c, type)
  /\ drawingChannel' = [drawingChannel EXCEPT ![c] = IF keep THEN @ ELSE @ \ {type}]
  /\ UNCHANGED <<storeVars, roomChannel, chatChannel, room, players, isDrawer, messages, timeLeft,
                 nextRoundTimers, roundEndTimers, award, canvasVars>>

\* Clear button: every row of the round is deleted, the local list emptied.
ClearCanvas(c) ==
  /\ room[c] # NoRoom
  /\ CanDraw(c)
  /\ drawingStrokes' = [k \in 1..Len(drawingStrokes) |->
                          IF drawingStrokes[k].roundNumber = room[c].currentRound
                            THEN [drawingStrokes[k] EXCEPT !.deleted = TRUE]
                            ELSE drawingStrokes[k]]
  /\ strokes' = [strokes EXCEPT ![c] = <<>>]
  /\ drawingChannel' = Publish(drawingChannel, "canvas_cleared")
  /\ UNCHANGED <<gameRooms, roomPlayers, gameStats, gameMessages, wordCategories, tieBreak, scoring, wordChoice, homeJoin, loading, subscriptions, startCall, now,
                 roomChannel, chatChannel, room, players, isDrawer, messages, timeLeft,
                 nextRoundTimers, roundEndTimers, award, canvasVars>>

\* Undo button: the last row of the LOCAL list is deleted, then loadStrokes and a
\* new_stroke notification.
UndoLastStroke(c) ==
  /\ room[c] # NoRoom
  /\ CanDraw(c)
  /\ strokes[c] # <<>>
  /\ LET lastStroke == strokes[c][Len(strokes[c])] IN
       /\ drawingStrokes' = [drawingStrokes EXCEPT ![lastStroke].deleted = TRUE]
       /\ strokes' = [strokes EXCEPT ![c] = RoundStrokes(drawingStrokes', room[c].currentRound)]
  /\ drawingChannel' = Publish(drawingChannel, "new_stroke")
  /\ UNCHANGED <<gameRooms, roomPlayers, gameStats, gameMessages, wordCategories, tieBreak, scoring, wordChoice, homeJoin, loading, subscriptions, startCall, now,
                 roomChannel, chatChannel, room, players, isDrawer, messages, timeLeft,
                 nextRoundTimers, roundEndTimers, award, canvasVars>>

\* --------------------------------------------------------- specifications
\* The text typed in the concurrent specifications: right when the word is "a",
\* wrong when it is "b".
RoundTexts == {<<"a">>}

\* Lobby: clients open the room and join.
LobbyNext ==
  \/ \E c \in Users : InitialLoad(c)
  \/ \E c \in Users : JoinRoom(c)
  \/ \E c \in Users, keep \in BOOLEAN : Deliver(c, "player_update", keep)

\* Game: start, guesses, awards, round ends and automatic advances.  The clients in
\* `active` receive notifications and type; the other players stay in the roster and
\* no notification reaches them in time.
RoundNext(active) ==
  \/ \E c \in Users : StartGame(c)
  \/ \E c \in active, type \in {"room_update", "round_end"} : Deliver(c, type, FALSE)
  \/ \E c \in active, newMessage \in RoundTexts : SendMessage(c, newMessage)
  \/ \E c \in active : AwardStatsRead(c)
  \/ \E c \in active : AwardStatsWrite(c)
  \/ \E c \in active : PublishRoundEnd(c)
  \/ \E c \in active : NextRoundTimeout(c)

Spec == Init /\ [][LobbyNext]_vars

\* A game of three players in which the host and the second player are active.
SpecRound == LobbyInit(NumUsers, DefaultCategories) /\ [][RoundNext({1, 2})]_vars

\* The drawer's canvas: pen down, pen moves, pen up.
DrawNext(active) ==
  \/ \E c \in active : StartDrawing(c)
  \/ \E c \in active : Draw(c)
  \/ \E c \in active : StopDrawing(c)

\* The game of SpecRound with a one-word list, and the canvas.
SpecDraw ==
  LobbyInit(NumUsers, OneWordCategories) /\ [][RoundNext({1, 2}) \/ DrawNext({1})]_vars

\* Word lists of the one category: plain words, a capital, a list written with a
\* blank after the comma, and a word with a blank before or after it.
GuessWordLists ==
  { <<"a">>, <<"A">>, <<"a", "b">>, <<"a", ",", " ", "b">>, <<" ", "a">>, <<"a", " ">> }

\* Every text of at most MaxLen characters.
GuessTexts == UNION { [1..n -> Chars] : n \in 1..MaxLen }

\* A started game in which the second player types any text.
GuessNext ==
  \/ \E c \in Users : StartGame(c)
  \/ \E c \in {1, 2} : Deliver(c, "room_update", FALSE)
  \/ \E newMessage \in GuessTexts : SendMessage(2, newMessage)

SpecGuess ==
  (\E words \in GuessWordLists : LobbyInit(NumUsers, <<words>>)) /\ [][GuessNext]_vars

\* Timers fire, awaited calls return and a notification in flight reaches every
\* subscribed client that stays in the room; nobody is obliged to type or to start.
Fairness(active) ==
  \A c \in active :
    /\ WF_vars(Deliver(c, "room_update", FALSE))
    /\ WF_vars(Deliver(c, "round_end", FALSE))
    /\ WF_vars(AwardStatsRead(c))
    /\ WF_vars(AwardStatsWrite(c))
    /\ WF_vars(PublishRoundEnd(c))
    /\ WF_vars(NextRoundTimeout(c))

\* A game of the first two users with a one-word list, under fair scheduling of
\* every client that is in the room.
SpecRoundFair ==
  /\ LobbyInit(2, OneWordCategories)
  /\ [][RoundNext(Users)]_vars
  /\ Fairness(Users)

\* Round 1 of a two-player game: the drawer draws, undoes and clears; every drawing
\* notification is delivered in any order, once or again; the third user opens the
\* room in the middle of the round.
CanvasNext ==
  \/ DrawNext({HostUserId})
  \/ ClearCanvas(HostUserId)
  \/ UndoLastStroke(HostUserId)
  \/ \E c \in Users, type \in {"new_stroke", "canvas_cleared"}, keep \in BOOLEAN :
       DeliverDrawing(c, type, keep)
  \/ InitialLoad(3)

SpecCanvas == PlayingInit(2, <<"a">>) /\ [][CanvasNext]_vars

\* A two-player game with a one-word list in which the host draws and clears the
\* canvas while rounds advance.
ClearNext ==
  \/ RoundNext({1, 2})
  \/ DrawNext({HostUserId})
  \/ ClearCanvas(HostUserId)

SpecClear == LobbyInit(2, OneWordCategories) /\ [][ClearNext]_vars

\* Round 1 of a two-player game while time passes: the second player's countdown
\* runs, and each correct guess of that player ends with a reload of the room.
TimerNext ==
  \/ Tick
  \/ TimerTick(2)
  \/ \E newMessage \in RoundTexts : SendMessage(2, newMessage)
  \/ AwardStatsRead(2)
  \/ AwardStatsWrite(2)

SpecTimer == PlayingInit(2, <<"a">>) /\ [][TimerNext]_vars

\* A text that is not the word of the one-word list.
WrongTexts == {<<"b">>}

\* Round 1 of a two-player game in which nobody guesses the word: time passes, the
\* second player's countdown runs down, wrong guesses are sent.  The clock and the
\* interval callback are weakly fair.
TimeUpNext ==
  \/ Tick
  \/ TimerTick(2)
  \/ \E newMessage \in WrongTexts : SendMessage(2, newMessage)

SpecTimeUp ==
  /\ PlayingInit(2, <<"a">>)
  /\ [][TimeUpNext]_vars
  /\ WF_vars(Tick)
  /\ WF_vars(TimerTick(2))

\* The lobby and the start of the game, over every order in which the table can
\* return players of equal score.
StartNext ==
  \/ LobbyNext
  \/ \E c \in Users : StartGame(c)
  \/ \E c \in Users : Deliver(c, "room_update", FALSE)

SpecStart ==
  (\E ranks \in TieBreaks : InitWith(OneWordCategories, ranks)) /\ [][StartNext]_vars

\* -------------------------------------------------------------- home page
\* The room right after HomePage.createRoom of the host: the room row and the host's
\* player row exist, and nobody has opened the game room yet.
\* createRoom's player row of the host: team red in a team-mode room, else null.
HostRows(teamMode) ==
  <<[id |-> HomePlayerId(HostUserId), userId |-> HostUserId, score |-> 0,
     team |-> IF teamMode THEN "red" ELSE "none"]>>

HomeRows == HostRows(FALSE)

HomeInit ==
  /\ CreatedRoom(DefaultCategories, CreationOrder, HomeRows)
  /\ scoring = NotCalled
  /\ wordChoice = NotChosen
  /\ homeJoin = NoHomeJoin
  /\ loading = NoLoading
  /\ subscriptions = [c \in Users |-> NoSubscription]
  /\ startCall = NoStartCall

\* generateRoomCode: the id of the stored room.
RoomId == <<"A">>

\* What the user typed into the join form.
JoinCodes == {<<"A">>, <<"a">>, <<"b">>, <<" ">>}

FindRoom_AnyCode(id) == <<gameRooms>>

\* gameRooms.list({ where: { id } }).
FindRoom(id) == IF id = RoomId THEN <<gameRooms>> ELSE <<>>

TeamCount(rows, team) == Cardinality({i \in 1..Len(rows) : rows[i].team = team})

\* The team joinRoom gives a new player: in a team-mode room the smaller team of the
\* player rows it has listed, red when they are equal; else null.
PlayerTeam(roomRow, rows) ==
  IF roomRow.teamMode
    THEN IF TeamCount(rows, "red") <= TeamCount(rows, "blue") THEN "red" ELSE "blue"
    ELSE "none"

\* HomePage.joinRoom of session s for user u, up to the existingPlayer query: a blank
\* code returns at once; without a room of the upper-cased code the join ends at the
\* 'Room not found' toast; a finished room ends it too; with a player row of the user
\* the session enters the game room, without one it lists the players of a team-mode
\* room to pick the team and goes on to create the row.
HomeJoinCheck(s, u, joinCode) ==
  /\ homeJoin[s].stage \in {"idle", "joined", "notFound"}
  /\ Trim(joinCode) # <<>>
  /\ LET rooms == FindRoom(ToUpperCase(joinCode)) IN
       IF rooms = <<>>
         THEN homeJoin' = [homeJoin EXCEPT ![s] =
                             [user |-> u, stage |-> "notFound", joinCode |-> joinCode,
                              team |-> "none"]]
         ELSE /\ rooms[1].gameState # "finished"
              /\ homeJoin' = [homeJoin EXCEPT ![s] =
                                [user |-> u,
                                 stage |-> IF HasPlayer(roomPlayers, u) THEN "joined" ELSE "create",
                                 joinCode |-> joinCode,
                                 team |-> IF HasPlayer(roomPlayers, u) THEN "none"
                                          ELSE PlayerTeam(rooms[1], roomPlayers)]]
  /\ UNCHANGED <<gameRooms, roomPlayers, gameStats, gameMessages, drawingStrokes,
                 wordCategories, tieBreak, scoring, wordChoice, loading, subscriptions, startCall, now, channelVars, viewVars,
                 nextRoundTimers, roundEndTimers, award, canvasVars>>

\* HomePage.joinRoom of session s: roomPlayers.create, then onJoinRoom.  A create
\* that throws ends the join at the error toast.
HomeJoinCreate(s) ==
  /\ homeJoin[s].stage = "create"
  /\ LET u == homeJoin[s].user IN
       IF HasRowId(roomPlayers, HomePlayerId(u))
         THEN /\ homeJoin' = [homeJoin EXCEPT ![s].stage = "idle"]
              /\ UNCHANGED roomPlayers
         ELSE /\ roomPlayers' = Append(roomPlayers,
                                       [id |-> HomePlayerId(u), userId |-> u, score |-> 0,
                                        team |-> homeJoin[s].team])
              /\ homeJoin' = [homeJoin EXCEPT ![s].stage = "joined"]
  /\ UNCHANGED <<gameRooms, gameStats, gameMessages, drawingStrokes, wordCategories, tieBreak,
                 scoring, wordChoice, loading, subscriptions, startCall, now, channelVars, viewVars, nextRoundTimers,
                 roundEndTimers, award, canvasVars>>

\* App shows GameRoom to a user whose home page has called onJoinRoom: the host after
\* createRoom, anyone else after a joinRoom that reached it.
Entered(u) ==
  u = HostUserId \/ \E s \in 1..NumSessions : homeJoin[s].user = u /\ homeJoin[s].stage = "joined"

EnterRoom(c) ==
  /\ Entered(c)
  /\ InitialLoad(c)

HomeNext ==
  \/ \E s \in 1..NumSessions, u \in Users, joinCode \in JoinCodes : HomeJoinCheck(s, u, joinCode)
  \/ \E s \in 1..NumSessions : HomeJoinCreate(s)
  \/ \E c \in Users : EnterRoom(c)

SpecHome == HomeInit /\ [][HomeNext]_vars

\* Rooms created with and without team mode, joined from the home page by up to
\* MaxHomeUsers users in NumSessions concurrent sessions.
HomeUsers == 1..MaxHomeUsers

TeamsInit ==
  \E teamMode \in BOOLEAN :
    /\ CreatedRoomWith([NewRoom EXCEPT !.teamMode = teamMode], DefaultCategories,
                       CreationOrder, HostRows(teamMode))
    /\ scoring = NotCalled
    /\ wordChoice = NotChosen
    /\ homeJoin = NoHomeJoin
    /\ loading = NoLoading
    /\ subscriptions = [c \in Users |-> NoSubscription]
    /\ startCall = NoStartCall

TeamsNext ==
  \/ \E s \in 1..NumSessions, u \in HomeUsers, joinCode \in {RoomId} : HomeJoinCheck(s, u, joinCode)
  \/ \E s \in 1..NumSessions : HomeJoinCreate(s)

SpecTeams == TeamsInit /\ [][TeamsNext]_vars

\* A two-player lobby that a third user opens and joins; every user may call
\* startGame.
HostNext ==
  \/ InitialLoad(3)
  \/ JoinRoom(3)
  \/ \E c \in Users : StartGame(c)
  \/ \E c \in Users : StartGameReturns(c)
  \/ \E c \in Users, type \in {"room_update", "player_update"} : Deliver(c, type, FALSE)

SpecHost == LobbyInit(2, DefaultCategories) /\ [][HostNext]_vars

\* A two-player lobby that a third user opens and joins before the host starts the
\* game; the second player receives the notifications, with the answer to a reload
\* possibly late, and sends up to MaxGuesses correct guesses.
StaleNext ==
  \/ InitialLoad(3)
  \/ JoinRoom(3)
  \/ StartGame(HostUserId)
  \/ \E type \in {"room_update", "player_update"} : Deliver(2, type, FALSE)
  \/ \E type \in {"room_update", "player_update"} : LoadRequested(2, type)
  \/ LoadAnswered(2)
  \/ \E newMessage \in RoundTexts : SendMessageWithin(2, newMessage, MaxGuesses)
  \/ AwardStatsRead(2)
  \/ AwardStatsWrite(2)

SpecStale == LobbyInit(2, OneWordCategories) /\ [][StaleNext]_vars

\* getRandomWord called for every room configuration and word_categories table of
\* a bounded range: a room without custom words (null or empty) or with a list of
\* one or two words, no difficulty or one of three, a table of at most
\* MaxCategories rows, a lookup that succeeds or throws.
CustomWordLists == {NullWord, <<>>, <<"a">>, <<"a", ",", "A">>}

Difficulties == {"", "easy", "medium", "hard"}

CategoryRows ==
  {[difficulty |-> "easy", words |-> <<"A">>],
   [difficulty |-> "medium", words |-> <<"b">>],
   [difficulty |-> "medium", words |-> <<"b", ",", "a">>]}

CategoryTables == UNION {[1..n -> CategoryRows] : n \in 0..MaxCategories}

WordsInit ==
  /\ EmptyRoom(DefaultCategories, CreationOrder)
  /\ scoring = NotCalled
  /\ wordChoice \in [customWords : CustomWordLists, difficulty : Difficulties,
                     table : CategoryTables, fails : BOOLEAN, called : {FALSE},
                     word : {NullWord}]
  /\ homeJoin = NoHomeJoin
  /\ loading = NoLoading
  /\ subscriptions = [c \in Users |-> NoSubscription]
  /\ startCall = NoStartCall

CallGetRandomWord ==
  /\ ~wordChoice.called
  /\ \E randomWord \in RandomWord(wordChoice.customWords, wordChoice.difficulty,
                                  wordChoice.table, wordChoice.fails) :
       wordChoice' = [wordChoice EXCEPT !.called = TRUE, !.word = randomWord]
  /\ UNCHANGED <<gameRooms, roomPlayers, gameStats, gameMessages, drawingStrokes,
                 wordCategories, tieBreak, scoring, homeJoin, loading, subscriptions, startCall, now, channelVars, viewVars,
                 nextRoundTimers, roundEndTimers, award, canvasVars>>

SpecWords == WordsInit /\ [][CallGetRandomWord]_vars

\* ---------------------------------------------------------------- chat view
\* ChatArea.loadMessages of client c.
LoadMessages(c) == messages' = [messages EXCEPT ![c] = ListMessages(gameMessages)]

\* The chat channel's handler of ChatArea: both notification types reload the list
\* (correct_guess also shows a toast).
OnChatMessage(c, type) ==
  IF type \in {"new_message", "correct_guess"}
    THEN LoadMessages(c)
    ELSE UNCHANGED messages

DeliverChat(c, type, keep) ==
  /\ room[c] # NoRoom
  /\ type \in chatChannel[c]
  /\ OnChatMessage(c, type)
  /\ chatChannel' = [chatChannel EXCEPT ![c] = IF keep THEN @ ELSE @ \ {type}]
  /\ UNCHANGED <<storeVars, roomChannel, drawingChannel, room, players, isDrawer, strokes,
                 timeLeft, nextRoundTimers, roundEndTimers, award, canvasVars>>

\* The text of the <p> element the message list renders for a message.
GuessedCorrectly == <<"Guessed the word correctly!">>

DisplayedText_Literal(message) == message.message

DisplayedText(message) ==
  IF message.isCorrect THEN GuessedCorrectly ELSE message.message

\* The texts client c's message list shows, top to bottom.
ChatView(c) == [i \in 1..Len(messages[c]) |-> DisplayedText(messages[c][i])]

\* Round 1 of a two-player game with chat: the second player sends right and wrong
\* guesses, every client's chat reloads on the notifications, a third user opens
\* the room.
ChatTexts == {<<"a">>, <<"b">>}

ChatNext ==
  \/ \E newMessage \in ChatTexts : SendMessage(2, newMessage)
  \/ AwardStatsRead(2)
  \/ AwardStatsWrite(2)
  \/ \E c \in Users, type \in {"new_message", "correct_guess"}, keep \in BOOLEAN :
       DeliverChat(c, type, keep)
  \/ InitialLoad(3)

SpecChat == PlayingInit(2, <<"a">>) /\ [][ChatNext]_vars

\* A chat that already holds MessageLimit messages, all wrong guesses of the second
\* player.
FullChat ==
  [k \in 1..MessageLimit |->
     [userId |-> 2, message |-> <<"b">>, isGuess |-> TRUE, isCorrect |-> FALSE]]

\* Round 1 of a two-player game whose chat is full: the second player sends up to
\* MaxMessages more messages and every chat notification is delivered in the end.
FullChatNext ==
  \/ \E newMessage \in ChatTexts : SendMessageWithin(2, newMessage, MessageLimit + MaxMessages)
  \/ AwardStatsRead(2)
  \/ AwardStatsWrite(2)
  \/ \E c \in {1, 2}, type \in {"new_message", "correct_guess"} : DeliverChat(c, type, FALSE)

SpecFullChat ==
  /\ PlayingInitWith(2, <<"a">>, FullChat)
  /\ [][FullChatNext]_vars
  /\ \A c \in {1, 2}, type \in {"new_message", "correct_guess"} :
       WF_vars(DeliverChat(c, type, FALSE))

\* A two-player game in which the realtime effect of each client follows its reloads.
SubscribeNext ==
  \/ StartGame(HostUserId)
  \/ \E c \in {1, 2} : Deliver(c, "room_update", FALSE)
  \/ \E newMessage \in RoundTexts : SendMessage(2, newMessage)
  \/ AwardStatsRead(2)
  \/ AwardStatsWrite(2)
  \/ \E c \in {1, 2} : RunEffect(c)
  \/ \E c \in {1, 2}, h \in 1..MaxEffects : SubscribeResolved(c, h)

SpecSubscribe == LobbyInit(2, OneWordCategories) /\ [][SubscribeNext]_vars

\* The chat of SpecChat in which the score write of a correct guess may be rejected.
WriteFailsNext ==
  \/ \E newMessage \in ChatTexts, updateFails \in BOOLEAN :
       SendMessageIO(2, newMessage, MaxMessages, updateFails)
  \/ AwardStatsRead(2)
  \/ AwardStatsWrite(2)
  \/ PublishRoundEnd(2)
  \/ \E type \in {"new_message", "correct_guess"} : DeliverChat(1, type, FALSE)

SpecWriteFails == PlayingInit(2, <<"a">>) /\ [][WriteFailsNext]_vars

\* calculatePoints called with every pair of arguments of a bounded range: time left
\* from -MaxTimeArg to MaxTimeArg, round lengths of half a minute, a minute and a
\* minute and a half.
MaxTimeArgs == {30, 60, 90}

PointsInit ==
  /\ EmptyRoom(DefaultCategories, CreationOrder)
  /\ scoring \in [timeLeft : (0 - MaxTimeArg)..MaxTimeArg, maxTime : MaxTimeArgs,
                  called : {FALSE}, points : {0}]
  /\ wordChoice = NotChosen
  /\ homeJoin = NoHomeJoin
  /\ loading = NoLoading
  /\ subscriptions = [c \in Users |-> NoSubscription]
  /\ startCall = NoStartCall

CallCalculatePoints ==
  /\ ~scoring.called
  /\ scoring' = [scoring EXCEPT !.called = TRUE,
                                !.points = CalculatePoints(scoring.timeLeft, scoring.maxTime)]
  /\ UNCHANGED <<gameRooms, roomPlayers, gameStats, gameMessages, drawingStrokes,
                 wordCategories, tieBreak, wordChoice, homeJoin, loading, subscriptions, startCall, now, channelVars, viewVars,
                 nextRoundTimers, roundEndTimers, award, canvasVars>>

SpecPoints == PointsInit /\ [][CallCalculatePoints]_vars

\* A game of three players in which no notification reaches the host.
SpecHostStale == LobbyInit(NumUsers, OneWordCategories) /\ [][RoundNext({2, 3})]_vars

\* ------------------------------------------------------------------ claims
\* C1: the stored room state only changes waiting -> playing -> finished; it never
\* returns to waiting, never goes from finished to playing, and nothing changes it
\* once it is finished.
StateOrder(before, after) ==
  \/ before = after
  \/ before = "waiting" /\ after = "playing"
  \/ before = "playing" /\ after = "finished"

C1_StateOnlyMovesForward == [][StateOrder(gameRooms.gameState, gameRooms'.gameState)]_vars

\* C2: a scheduled automatic round-advance that fires after the room's round has
\* already been advanced does not change the stored room.
C2_LateTimeoutChangesNothing ==
  [][\A c \in Users, i \in 1..MaxTimers :
       (/\ NextRoundTimeoutAt(c, i)
        /\ nextRoundTimers[c][i].room.gameState = "playing"
        /\ nextRoundTimers[c][i].room.currentRound < gameRooms.currentRound)
       => gameRooms' = gameRooms]_vars

\* C3: nextRound invoked a second time from the same observed room leaves the stored
\* round number, drawer, word and state as the first invocation left them.
RoomCore(r) == <<r.currentRound, r.currentDrawerId, r.currentWord, r.gameState>>

AppliedOnce(snap) ==
  /\ snap.room.gameState = "playing"
  /\ IF NextRoundNumber(snap.room) > MaxRounds
       THEN gameRooms.gameState = "finished"
       ELSE /\ snap.players # <<>>
            /\ \E w \in GetRandomWord : gameRooms = AdvancedRoom(gameRooms, snap, w)

C3_SecondAdvanceIsIdempotent ==
  [][\A c \in Users, i \in 1..MaxTimers :
       (NextRoundTimeoutAt(c, i) /\ AppliedOnce(nextRoundTimers[c][i]))
       => RoomCore(gameRooms') = RoomCore(gameRooms)]_vars

\* C4: once a player is among the correct guessers of the room's round, no further
\* award in that round changes the player's stored score.
StoredScore(rows, u) == rows[FindIndex(rows, u) + 1].score

AlreadyAwarded(u) ==
  /\ gameRooms.currentRound \in 1..MaxRounds
  /\ gameStats[gameRooms.currentRound].exists
  /\ SeqContains(gameStats[gameRooms.currentRound].correctGuessers, u)

C4_OneAwardPerRound ==
  [][\A u \in Users :
       (HasPlayer(roomPlayers, u) /\ AlreadyAwarded(u)
        /\ gameRooms'.currentRound = gameRooms.currentRound)
       => StoredScore(roomPlayers', u) = StoredScore(roomPlayers, u)]_vars

\* C5: the drawer of round r+1 is the player right after the drawer of round r in
\* join order, wrapping around.
JoinSuccessor(u) == roomPlayers[((FindIndex(roomPlayers, u) + 1) % Len(roomPlayers)) + 1].userId

C5_RoundRobinInJoinOrder ==
  [][(gameRooms.currentRound >= 1 /\ gameRooms'.currentRound = gameRooms.currentRound + 1)
       => gameRooms'.currentDrawerId = JoinSuccessor(gameRooms.currentDrawerId)]_vars

\* C6: nextRound run on a room at round = maxRounds sets the stored state to
\* finished and leaves the stored round number, drawer and word as they were; the
\* stored round number never exceeds maxRounds.
C6_FinishKeepsRound ==
  [][/\ gameRooms'.currentRound <= MaxRounds
     /\ \A c \in Users, i \in 1..MaxTimers :
          (NextRoundTimeoutAt(c, i) /\ nextRoundTimers[c][i].room.currentRound = MaxRounds)
          => gameRooms' = [gameRooms EXCEPT !.gameState = "finished"]]_vars

C6_Witness == gameRooms.gameState = "finished" /\ gameRooms.currentRound = MaxRounds

\* C8: a message is stored as a guess exactly when the room is playing and its
\* author is not the room's current drawer, and the current drawer of a playing room
\* stores no message at all.
LastMessage == gameMessages'[Len(gameMessages')]

C8_GuessIffPlayingNonDrawer ==
  [][Len(gameMessages') > Len(gameMessages) =>
       /\ ~(gameRooms.gameState = "playing" /\ gameRooms.currentDrawerId = LastMessage.userId)
       /\ LastMessage.isGuess <=>
            (gameRooms.gameState = "playing" /\ gameRooms.currentDrawerId # LastMessage.userId)]_vars

\* C9: a stroke row is created only by the room's current drawer, for the room's
\* current round, while the room is playing.
NewStroke == drawingStrokes'[Len(drawingStrokes')]

C9_OnlyCurrentDrawerAppends ==
  [][\A c \in Users :
       (StopDrawing(c) /\ Len(drawingStrokes') > Len(drawingStrokes))
       => /\ gameRooms.gameState = "playing"
          /\ gameRooms.currentDrawerId = c
          /\ NewStroke.roundNumber = gameRooms.currentRound]_vars

\* C10: a guess is marked correct exactly when its text, lower-cased and trimmed,
\* equals the room's word lower-cased and trimmed.
Normalised(text) == Trim(ToLowerCase(text))

C10_CorrectIffNormalisedEqual ==
  [][\A newMessage \in GuessTexts :
       (SendMessage(2, newMessage) /\ LastMessage.isGuess)
       => (LastMessage.isCorrect <=>
             Normalised(newMessage) = Normalised(room[2].currentWord))]_vars

\* C7: once a non-drawer who sees the room as it is stored has guessed the word of
\* round r in a playing room, the stored round eventually becomes r + 1 or the
\* room becomes finished.
CorrectGuessPending(r) ==
  \E c \in Users :
    /\ gameRooms.gameState = "playing"
    /\ gameRooms.currentRound = r
    /\ gameRooms.currentDrawerId # c
    /\ room[c] = gameRooms
    /\ roundEndTimers[c] > 0
    /\ award[c].stage = "read"
    /\ award[c].roundNumber = r

Advanced(r) == gameRooms.currentRound = r + 1 \/ gameRooms.gameState = "finished"

C7_CorrectGuessAdvancesRound ==
  \A r \in 1..MaxRounds : CorrectGuessPending(r) ~> Advanced(r)

\* C11: a subscribed client that has no drawing notification left to receive holds
\* the table's strokes of the active round, in creation order.
C11_DeliveredCanvasMatchesStore ==
  \A c \in Users :
    (Subscribed(c) /\ drawingChannel[c] = {} /\ room[c].currentRound = gameRooms.currentRound)
    => strokes[c] = RoundStrokes(drawingStrokes, gameRooms.currentRound)

\* C12: when a client opens the room in the middle of a round, the stroke list of its
\* first load is the list held by every client that has been in the round since it
\* started and has no drawing notification left to receive.
C12_LateSubscriberMatchesConnected ==
  [][\A late, c \in Users :
       (/\ InitialLoad(late)
        /\ Subscribed(c)
        /\ drawingChannel[c] = {}
        /\ room[c].currentRound = gameRooms.currentRound)
       => strokes'[late] = strokes[c]]_vars

\* C13: after a reload that finds the room playing, the displayed time left is the
\* time left computed from the loaded row and the clock, 0 included.
C13_ReloadRecomputesTimeLeft ==
  [][\A c \in Users :
       (AwardStatsWrite(c) /\ room'[c].gameState = "playing")
       => timeLeft'[c] = Remaining(room'[c])]_vars

\* C14: once the countdown of a client that sees the stored room has reached zero in
\* a playing round whose time has run out, the round is eventually advanced or the
\* game finished.
TimeIsUp(r) ==
  /\ gameRooms.gameState = "playing"
  /\ gameRooms.currentRound = r
  /\ now - gameRooms.roundStartTime >= RoundTime
  /\ \E c \in Users : Subscribed(c) /\ room[c] = gameRooms /\ timeLeft[c] = 0

C14_TimeUpAdvancesRound ==
  \A r \in 1..MaxRounds : TimeIsUp(r) ~> Advanced(r)

\* C15: a startGame on a stored waiting room with two or more players writes state
\* playing, round 1, the start time, a word of the list, and as drawer the player
\* who joined first.
C15_StartSetsFirstJoinedDrawer ==
  [][\A c \in Users :
       (StartGame(c) /\ gameRooms.gameState = "waiting" /\ Len(roomPlayers) >= 2)
       => /\ gameRooms'.gameState = "playing"
          /\ gameRooms'.currentRound = 1
          /\ gameRooms'.roundStartTime = now
          /\ gameRooms'.currentWord \in GetRandomWord
          /\ gameRooms'.currentDrawerId = roomPlayers[1].userId]_vars

\* C16: a startGame that finds the stored room not waiting, or fewer than two stored
\* players, changes neither the room row nor the statistics and publishes nothing.
C16_StartRejectedOutsideWaiting ==
  [][\A c \in Users :
       (StartGame(c) /\ ~(gameRooms.gameState = "waiting" /\ Len(roomPlayers) >= 2))
       => UNCHANGED <<gameRooms, gameStats, roomChannel>>]_vars

\* C17: for every integer time left, calculatePoints returns at least 50 and at most
\* 150 points, never fewer points for more time left, and exactly
\* max(100 + floor(clamp(timeLeft / duration, 0, 1) * 50), 50).
Clamp(x, lo, hi) == IF x < lo THEN lo ELSE IF x > hi THEN hi ELSE x

ClampedPoints(t, duration) ==
  Max(BasePoints + ((Clamp(t, 0, duration) * BonusCap) \div duration), MinPoints)

C17_PointsClampedAndMonotone ==
  scoring.called =>
    /\ scoring.points >= MinPoints
    /\ scoring.points <= BasePoints + BonusCap
    /\ \A t \in (0 - MaxTimeArg)..scoring.timeLeft :
         CalculatePoints(t, scoring.maxTime) <= scoring.points
    /\ scoring.points = ClampedPoints(scoring.timeLeft, scoring.maxTime)

\* C18: the points a correct guess adds to the guesser's stored score are
\* calculatePoints of the time remaining in the round at the moment of the guess.
C18_AwardFollowsTimeRemaining ==
  [][\A c \in Users :
       ((\E newMessage \in RoundTexts : SendMessage(c, newMessage))
          /\ roomPlayers' # roomPlayers)
       => StoredScore(roomPlayers', c) - StoredScore(roomPlayers, c)
            = CalculatePoints(Remaining(gameRooms), RoundTime)]_vars

\* C19: while the room is in its first round, the message log holds at most one
\* message with isCorrect = TRUE of each player (every message of the log was created
\* in that round: the log starts empty at the start of the round).
CorrectMessages(u) ==
  {i \in 1..Len(gameMessages) : gameMessages[i].userId = u /\ gameMessages[i].isCorrect}

C19_OneCorrectMessagePerRound ==
  (gameRooms.gameState = "playing" /\ gameRooms.currentRound = 1)
  => \A u \in Users : Cardinality(CorrectMessages(u)) <= 1

\* C20: in every client's chat view a message stored with isCorrect = TRUE is shown
\* as the fixed 'Guessed the word correctly!' text and not as its own text, and a
\* message stored with isCorrect = FALSE is shown as its own text.
C20_CorrectGuessTextHidden ==
  \A c \in Users : \A i \in 1..Len(messages[c]) :
    /\ i <= Len(gameMessages)
    /\ IF gameMessages[i].isCorrect
         THEN ChatView(c)[i] = GuessedCorrectly /\ ChatView(c)[i] # gameMessages[i].message
         ELSE ChatView(c)[i] = gameMessages[i].message

\* Another player's view shows a correct guess and a wrong guess of player 2.
C20_Witness ==
  /\ Len(messages[1]) = 2
  /\ \E i, j \in 1..2 :
       /\ gameMessages[i].userId = 2 /\ gameMessages[i].isCorrect
       /\ ChatView(1)[i] = GuessedCorrectly
       /\ gameMessages[j].userId = 2 /\ ~gameMessages[j].isCorrect
       /\ ChatView(1)[j] = <<"b">>

\* C21: no notification published on the room channel while another subscriber who
\* is not the drawer listens carries the room's current word in its payload.
C21_NoWordInNotification ==
  [][\A c \in Users :
       ((\E newMessage \in RoundTexts :
            SendMessage(c, newMessage) /\ MessageData(c, newMessage).isCorrect)
          /\ \E d \in Users \ {c} : Subscribed(d) /\ gameRooms.currentDrawerId # d)
       => RoomCorrectGuessPayload(c, CalculatePoints(GuessTimeLeft, DefaultMaxTime)).word
            # gameRooms.currentWord]_vars

\* C22: a subscribed client whose player list differs from the stored player rows
\* (a score was awarded that it does not show yet) eventually shows the stored rows.
ShowsStoredScores(d) == players[d] = ListPlayers(roomPlayers)

C22_AwardReachesEveryClient ==
  \A d \in Users : (Subscribed(d) /\ ~ShowsStoredScores(d)) ~> ShowsStoredScores(d)

\* C23: undo deletes the most recently created stored stroke of the stored round and
\* nothing else; with no stored stroke in that round it changes no row and
\* publishes nothing.
C23_UndoRemovesNewestStroke ==
  [][\A c \in Users :
       UndoLastStroke(c)
       => LET live == RoundStrokes(drawingStrokes, gameRooms.currentRound) IN
            IF live = <<>>
              THEN UNCHANGED <<drawingStrokes, drawingChannel>>
              ELSE drawingStrokes' =
                     [drawingStrokes EXCEPT ![live[Len(live)]].deleted = TRUE]]_vars

\* C24: a clear by the stored drawer of a playing room leaves no stroke of the stored
\* round and changes no stroke of another round; a clear by anyone else changes no
\* stroke.
OtherRoundsUnchanged(roundNumber) ==
  /\ Len(drawingStrokes') = Len(drawingStrokes)
  /\ \A k \in 1..Len(drawingStrokes) :
       drawingStrokes[k].roundNumber # roundNumber => drawingStrokes'[k] = drawingStrokes[k]

C24_ClearEmptiesActiveRoundOnly ==
  [][\A c \in Users :
       ClearCanvas(c)
       => IF gameRooms.gameState = "playing" /\ gameRooms.currentDrawerId = c
            THEN /\ RoundStrokes(drawingStrokes', gameRooms.currentRound) = <<>>
                 /\ OtherRoundsUnchanged(gameRooms.currentRound)
            ELSE drawingStrokes' = drawingStrokes]_vars

\* C25: a nextRound leaves the stroke table as it is, and the stroke list of a
\* client holds only strokes of the round the client has loaded.
LoadedRoundOnly(c) ==
  \A i \in 1..Len(strokes[c]) :
    drawingStrokes[strokes[c][i]].roundNumber = room[c].currentRound

MatchingCategories ==
  {k \in 1..Len(wordChoice.table) :
     wordChoice.table[k].difficulty
       = (IF wordChoice.difficulty = "" THEN "medium" ELSE wordChoice.difficulty)}

HasCustomWords == wordChoice.customWords # NullWord /\ wordChoice.customWords # <<>>

OneRowPerUser ==
  \A i, j \in 1..Len(roomPlayers) : roomPlayers[i].userId = roomPlayers[j].userId => i = j

JoinOffered(c) ==
  room[c] # NoRoom /\ room[c].gameState = "waiting" /\ ~HasPlayer(players[c], c)

C27_OnePlayerRowPerUser ==
  /\ OneRowPerUser
  /\ \A c \in Users : ~JoinOffered(c)

\* Two home-page sessions of the same user have both passed the existing-player
\* query without finding a row, one of them has created the row, and the user is in
\* the game room.
C27_Witness ==
  \E u \in Users \ {HostUserId} :
    /\ homeJoin[1].user = u /\ homeJoin[1].stage = "joined"
    /\ homeJoin[2].user = u /\ homeJoin[2].stage = "create"
    /\ HasRowId(roomPlayers, HomePlayerId(u))
    /\ room[u] # NoRoom

\* C28: every stored score is at least 0, and no step lowers the stored score of a
\* player.
ScoresNotNegative == \A i \in 1..Len(roomPlayers) : roomPlayers[i].score >= 0

C28_ScoresNeverDecrease ==
  /\ []ScoresNotNegative
  /\ [][\A u \in Users :
          HasPlayer(roomPlayers, u)
          => /\ HasPlayer(roomPlayers', u)
             /\ StoredScore(roomPlayers', u) >= StoredScore(roomPlayers, u)]_vars

\* C29: once the stored room is finished, no step changes its round number, drawer,
\* word or round-start timestamp.
C29_FinishedRoomFrozen ==
  [][gameRooms.gameState = "finished"
       => /\ gameRooms'.currentRound = gameRooms.currentRound
          /\ gameRooms'.currentDrawerId = gameRooms.currentDrawerId
          /\ gameRooms'.currentWord = gameRooms.currentWord
          /\ gameRooms'.roundStartTime = gameRooms.roundStartTime]_vars

\* C30: the stored room's current drawer is null or the user of a player row of the
\* room.
C30_DrawerIsJoinedPlayer ==
  gameRooms.currentDrawerId = NoUser \/ HasPlayer(roomPlayers, gameRooms.currentDrawerId)

\* A round was advanced by a delayed nextRound: the stored drawer is a player other
\* than the host, in a round after the first.
C30_Witness ==
  /\ gameRooms.currentRound >= 2
  /\ gameRooms.currentDrawerId # NoUser
  /\ gameRooms.currentDrawerId # HostUserId
  /\ HasPlayer(roomPlayers, gameRooms.currentDrawerId)

\* C31: the correct-guesser list of a round's statistics row only grows: a player in
\* the list of a round stays in it.
C31_CorrectGuessersOnlyGrow ==
  [][\A r \in 1..MaxRounds, u \in Users :
       (gameStats[r].exists /\ SeqContains(gameStats[r].correctGuessers, u))
       => (gameStats'[r].exists /\ SeqContains(gameStats'[r].correctGuessers, u))]_vars

\* C32: a join whose upper-cased code is the id of no stored room ends at the 'Room not
\* found' toast: no player row is created and onJoinRoom is not called.
JoinStarted(s) ==
  /\ homeJoin[s].stage \in {"idle", "joined", "notFound"}
  /\ homeJoin'[s] # homeJoin[s]

C32_UnknownCodeNotFound ==
  [][\A s \in 1..NumSessions :
       (JoinStarted(s) /\ ToUpperCase(homeJoin'[s].joinCode) # RoomId)
       => (homeJoin'[s].stage = "notFound" /\ roomPlayers' = roomPlayers)]_vars

\* One session was turned away with the code "b" while another session joined with
\* the code "a".
C32_Witness ==
  /\ homeJoin[1].stage = "notFound" /\ homeJoin[1].joinCode = <<"b">>
  /\ homeJoin[2].stage = "joined" /\ homeJoin[2].joinCode = <<"a">>
  /\ homeJoin[1].user = homeJoin[2].user

\* C33: a command whose store write fails publishes nothing: when the score write of a
\* correct guess fails, no notification is published and no round_end is scheduled.
ScoreWriteFailed(c) ==
  /\ Len(gameMessages') = Len(gameMessages) + 1
  /\ gameMessages'[Len(gameMessages')].userId = c
  /\ gameMessages'[Len(gameMessages')].isCorrect
  /\ HasPlayer(players[c], c)
  /\ award'[c] = award[c]

C33_FailedWritePublishesNothing ==
  [][\A c \in Users :
       ScoreWriteFailed(c)
       => /\ chatChannel' = chatChannel
          /\ roomChannel' = roomChannel
          /\ roundEndTimers' = roundEndTimers]_vars

\* C34: a client has at most one active subscription to the room channel.
ActiveHandlers(c) ==
  {h \in 1..Len(subscriptions[c].handlers) : subscriptions[c].handlers[h] = "active"}

C34_OneActiveSubscription ==
  \A c \in Users : Cardinality(ActiveHandlers(c)) <= 1

\* C35: the stored round number lies between 0 and maxRounds, and no step lowers it.
C35_RoundNeverDecreases ==
  /\ [](gameRooms.currentRound \in 0..MaxRounds)
  /\ [][gameRooms'.currentRound >= gameRooms.currentRound]_vars

\* C36: while the room is playing round R and the statistics row of R exists, the
\* row's drawer and word are the room's current drawer and word.
C36_StatsMatchRoom ==
  LET r == gameRooms.currentRound IN
  (gameRooms.gameState = "playing" /\ r \in 1..MaxRounds /\ gameStats[r].exists)
  => (gameStats[r].drawerId = gameRooms.currentDrawerId
      /\ gameStats[r].word = gameRooms.currentWord)

C38_OnlyHostStarts ==
  [][\A c \in Users \ {HostUserId} :
       (startCall' # startCall /\ startCall'.caller = c)
       => (gameRooms' = gameRooms /\ gameStats' = gameStats
           /\ roomChannel' = roomChannel /\ chatChannel' = chatChannel
           /\ drawingChannel' = drawingChannel)]_vars

\* A joined player who is not the host has called startGame in a waiting room of
\* three players, and the room is still waiting.
C38_Witness ==
  /\ startCall.caller # HostUserId
  /\ startCall.outcome = "returned"
  /\ HasPlayer(roomPlayers, startCall.caller)
  /\ Len(players[startCall.caller]) >= 2
  /\ room[startCall.caller].gameState = "waiting"
  /\ gameRooms.gameState = "waiting"

\* C39: in a team-mode room every player is red or blue and the team sizes differ by
\* at most one; in a room without team mode no player has a team.
Teams == {"red", "blue"}

C39_TeamsBalanced ==
  IF gameRooms.teamMode
    THEN /\ \A i \in 1..Len(roomPlayers) : roomPlayers[i].team \in Teams
         /\ TeamCount(roomPlayers, "red") - TeamCount(roomPlayers, "blue") \in -1..1
    ELSE \A i \in 1..Len(roomPlayers) : roomPlayers[i].team = "none"

\* C40: the chat view of a subscribed client comes to list every stored message of
\* the room, in creation order.
ShowsStoredMessages(c) == messages[c] = gameMessages

C40_StoredMessageShown ==
  \A c \in {1, 2} :
    (Subscribed(c) /\ ~ShowsStoredMessages(c)) ~> ShowsStoredMessages(c)

====
